---------------------------- MODULE Spec2Model ----------------------------
(***************************************************************************)
(* A model of the translation reconciliation engine of i18n-app:           *)
(* flatten_json_inner and get_missing_keys (src/src/translation.rs),       *)
(* merge_json_content and push_translations (src/src/service.rs).          *)
(*                                                                         *)
(* Strings are sequences of one-character strings, so that trim(),         *)
(* split('.') and the dotted join are computed and not assumed.  A JSON    *)
(* value (serde_json::Value) is a record [t |-> tag, v |-> payload].       *)
(***************************************************************************)
EXTENDS Integers, Sequences, FiniteSets, TLC

VARIABLES
    \* sync_translations' merge step (service.rs 440-446)
    local_json, remote_json, merged_content, merge_pc,
    \* flatten_json (translation.rs 121-125)
    json, flattened, flatten_pc,
    \* save_translation_file (service.rs 501-535)
    save_result,           \* the tree built from the flat mapping, or the error
    file,                 \* what the target file holds afterwards
    \* get_missing_keys (translation.rs 149-162)
    base, other, missing, missing_pc,
    \* push_translations (service.rs 108-248)
    pc,                   \* the step push_translations is at
    local_files,          \* the translation files on disk when the run starts
    local_translations,   \* Vec<TranslationFile> of push_translations
    base_translation,     \* the clone of the base language's file
    idx,                  \* position of the loop being run
    saved,                \* language -> tree written by save_translation_file
    cache_dir,            \* the files in .i18n-app/cache: name -> tree
    remote_service,       \* language -> tree held by the remote service
    cached_translations,  \* language -> TranslationFile fetched in this run
    delta,                \* what the upload loop computed for its last file
    uploads,              \* the calls of api::upload_translation, in order
    result,               \* what push_translations returned
    cache_result,         \* what download_to_cache returned
    fetch_failed,         \* languages whose api::download_translation failed
    \* download_translations (service.rs 313-385), sync_translations (388-498)
    command,              \* "download" or "pull"
    sync_pc,              \* the step the command is at
    remote_blobs,         \* language -> tree under the language key, remotely
    files_to_download,    \* config_response.data.files
    target_dir,           \* file of the target directory -> its tree
    local_dir,            \* local translation file -> its tree
    sync_files,           \* local_files of sync_translations
    sync_idx,             \* position of the loop being run
    success_count,
    failed_count,
    sync_result,          \* what the command returned
    turns,                \* what each turn of the command's loop met
    local_before,         \* local_dir as it was when the command started
    \* main (main.rs 56-86), check_update (update.rs 91-171), Config (config.rs)
    cli_command,          \* cli.command
    main_pc,              \* the step main is at
    retry,                \* attempts made by check_update_with_retry
    latest_version,       \* the version of the latest release on GitHub
    gate,                 \* what the check of main returned
    handler,              \* the command handler main has called
    handler_result,       \* what the handler returned
    exit_code,            \* the process's exit status
    config_file,          \* what .i18n-app.json holds
    config_before,        \* config_file as it was when the process started
    service_ran,          \* a TranslationService operation was started
    installed             \* the install script ran successfully

mergeVars   == <<local_json, remote_json, merged_content, merge_pc>>
flattenVars == <<json, flattened, flatten_pc, save_result, file>>
missingVars == <<base, other, missing, missing_pc>>
pushVars ==
    <<pc, local_files, local_translations, base_translation, idx, saved,
      cache_dir, remote_service, cached_translations, delta, uploads, result,
      cache_result, fetch_failed>>
syncVars ==
    <<command, sync_pc, remote_blobs, files_to_download, target_dir, local_dir,
      sync_files, sync_idx, success_count, failed_count, sync_result, turns,
      local_before>>
mainVars ==
    <<cli_command, main_pc, retry, latest_version, gate, handler, handler_result,
      exit_code, config_file, config_before, service_ran, installed>>
vars == <<mergeVars, flattenVars, missingVars, pushVars, syncVars, mainVars>>

---------------------------------------------------------------------------
(* Bounds of the model.                                                    *)

\* Greatest nesting depth of the objects of an input tree.
MaxDepth == 2

\* Number of distinct keys of the flat mappings given to get_missing_keys.
MaxFlatKeys == 3

---------------------------------------------------------------------------
(* Strings.                                                                *)

\* char::is_whitespace, on the characters the model uses
is_whitespace(c) == c \in {" ", "\t"}

RECURSIVE trim_start(_)
trim_start(s) ==
    IF s = <<>> THEN <<>>
    ELSE IF is_whitespace(Head(s)) THEN trim_start(Tail(s)) ELSE s

RECURSIVE trim_end(_)
trim_end(s) ==
    IF s = <<>> THEN <<>>
    ELSE IF is_whitespace(s[Len(s)]) THEN trim_end(SubSeq(s, 1, Len(s) - 1)) ELSE s

\* str::trim
trim(s) == trim_end(trim_start(s))

\* the test  s.trim().is_empty()
trim_is_empty(s) == trim(s) = <<>>

---------------------------------------------------------------------------
(* serde_json::Value.                                                      *)

Str(s)  == [t |-> "str",  v |-> s]
Num(n)  == [t |-> "num",  v |-> n]
Bool(b) == [t |-> "bool", v |-> b]
Null    == [t |-> "null", v |-> 0]
Arr(a)  == [t |-> "arr",  v |-> a]
Obj(m)  == [t |-> "obj",  v |-> m]

\* The empty map (HashMap::new(), serde_json::Map::new())
EmptyMap == <<>>

\* HashMap::insert / Map::insert: the later value replaces the earlier one
MapInsert(map, key, value) ==
    [k \in (DOMAIN map) \cup {key} |-> IF k = key THEN value ELSE map[k]]

\* The keys of the model in ascending byte order: serde_json::Map is a
\* BTreeMap, which iterates in this order.
KeyOrder == << <<>>, <<"a">>, <<"a", ".", "b">>, <<"b">>, <<"c">> >>

SortedKeys(S) == SelectSeq(KeyOrder, LAMBDA k : k \in S)


---------------------------------------------------------------------------
(* Value::to_string: the compact JSON text of a value.                     *)

DigitChars == <<"0", "1", "2", "3", "4", "5", "6", "7", "8", "9">>

RECURSIVE Digits(_)
Digits(n) ==
    IF n < 10 THEN <<DigitChars[n + 1]>>
    ELSE Digits(n \div 10) \o <<DigitChars[(n % 10) + 1]>>

RECURSIVE JoinWith(_, _)
\* the texts of parts, separated by sep
JoinWith(parts, sep) ==
    IF parts = <<>> THEN <<>>
    ELSE IF Len(parts) = 1 THEN parts[1]
    ELSE parts[1] \o sep \o JoinWith(Tail(parts), sep)

RECURSIVE to_string(_)
to_string(value) ==
    CASE value.t = "str"  -> <<"\"">> \o value.v \o <<"\"">>
      [] value.t = "num"  -> Digits(value.v)
      [] value.t = "bool" -> IF value.v THEN <<"t", "r", "u", "e">>
                                        ELSE <<"f", "a", "l", "s", "e">>
      [] value.t = "null" -> <<"n", "u", "l", "l">>
      [] value.t = "arr"  ->
            <<"[">> \o JoinWith([i \in DOMAIN value.v |-> to_string(value.v[i])], <<",">>)
                    \o <<"]">>
      [] value.t = "obj"  ->
            LET ks == SortedKeys(DOMAIN value.v)
            IN <<"{">> \o JoinWith([i \in DOMAIN ks |->
                                      <<"\"">> \o ks[i] \o <<"\"", ":">>
                                         \o to_string(value.v[ks[i]])], <<",">>)
                       \o <<"}">>

---------------------------------------------------------------------------
(* translation.rs: flatten_json_inner, flatten_json, get_missing_keys.     *)

\* new_prefix of flatten_json_inner
NewPrefix(prefix, key) ==
    IF prefix = <<>> THEN key ELSE prefix \o <<".">> \o key

RECURSIVE flatten_json_inner(_, _, _)
RECURSIVE FlattenObject(_, _, _, _)

\* the loop  for (key, val) in obj  of flatten_json_inner, over the keys
\* still to visit
FlattenObject(obj, keys, prefix, map) ==
    IF keys = <<>> THEN map
    ELSE LET key == Head(keys)
         IN FlattenObject(obj, Tail(keys), prefix,
                          flatten_json_inner(obj[key], NewPrefix(prefix, key), map))

flatten_json_inner(value, prefix, map) ==
    IF value.t = "obj"
    THEN FlattenObject(value.v, SortedKeys(DOMAIN value.v), prefix, map)
    ELSE IF value.t = "str"
    THEN MapInsert(map, prefix, value.v)
    ELSE MapInsert(map, prefix, to_string(value))

flatten_json(value) == flatten_json_inner(value, <<>>, EmptyMap)

TranslationFile(language_code, relative_path, content) ==
    [language_code |-> language_code, relative_path |-> relative_path,
     content |-> content]

\* mutant: the test of membership inverted
MissingKeySet_TestInverted(base_content, other_content) ==
    {key \in DOMAIN base_content : key \in DOMAIN other_content}

\* the keys get_missing_keys inserts into missing
MissingKeySet(base_content, other_content) ==
    {key \in DOMAIN base_content : key \notin DOMAIN other_content}

get_missing_keys(b, o) ==
    [key \in MissingKeySet(b.content, o.content) |-> b.content[key]]

---------------------------------------------------------------------------
(* service.rs: merge_json_content.                                         *)

IsBlankString(value) == value.t = "str" /\ trim_is_empty(value.v)

IsScalar(value) == value.t \in {"str", "num", "bool", "null"}
NonEmptyScalar(value) == IsScalar(value) /\ ~IsBlankString(value)

\* mutant: the remote value always wins
CommonKeyNonObject_RemoteAlways(local_value, remote_value) == remote_value

\* mutant: the test of the remote string for blankness inverted
CommonKeyNonObject_TestInverted(local_value, remote_value) ==
    IF remote_value.t = "str"
    THEN IF trim_is_empty(remote_value.v) THEN remote_value ELSE local_value
    ELSE remote_value

\* mutant: a blank remote string keeps the local value only when that is a
\* populated scalar
CommonKeyNonObject_ScalarLocalOnly(local_value, remote_value) ==
    IF IsBlankString(remote_value) /\ NonEmptyScalar(local_value)
    THEN local_value
    ELSE remote_value

\* The inner match on (local_value, remote_value) for a key of both maps,
\* without its first arm (two objects): service.rs 623-640.
CommonKeyNonObject(local_value, remote_value) ==
    IF remote_value.t = "str"
    THEN IF trim_is_empty(remote_value.v) THEN local_value ELSE remote_value
    ELSE remote_value

\* mutant: a local key whose remote value is a blank string is dropped
LocalKeysKept_BlankRemoteDropped(local_map, remote_map) ==
    {key \in DOMAIN local_map :
        ~(key \in DOMAIN remote_map /\ IsBlankString(remote_map[key]))}

\* The local keys the first loop inserts into merged: all of them.
LocalKeysKept(local_map, remote_map) == DOMAIN local_map

\* mutant: the else branch that adds the values that are no strings is lost
RemoteOnlyKeysAdded_StringsOnly(local_map, remote_map) ==
    {key \in DOMAIN remote_map :
        /\ key \notin DOMAIN local_map
        /\ remote_map[key].t = "str" /\ ~trim_is_empty(remote_map[key].v)}

\* The keys the second loop inserts: remote-only keys, a string value only
\* when it is not blank.
RemoteOnlyKeysAdded(local_map, remote_map) ==
    {key \in DOMAIN remote_map :
        /\ key \notin DOMAIN local_map
        /\ (remote_map[key].t = "str" => ~trim_is_empty(remote_map[key].v))}

\* The last two arms of the outer match: one side is not an object.
NotBothObjects(local_value, remote_value) ==
    IF remote_value.t = "str" /\ trim_is_empty(remote_value.v)
    THEN local_value
    ELSE remote_value

RECURSIVE merge_json_content(_, _)
merge_json_content(local, remote) ==
    IF local.t = "obj" /\ remote.t = "obj"
    THEN LET local_map  == local.v
             remote_map == remote.v
             keys == LocalKeysKept(local_map, remote_map)
                        \cup RemoteOnlyKeysAdded(local_map, remote_map)
         IN Obj([key \in keys |->
                  IF key \in DOMAIN local_map
                  THEN IF key \in DOMAIN remote_map
                       THEN IF local_map[key].t = "obj" /\ remote_map[key].t = "obj"
                            THEN merge_json_content(local_map[key], remote_map[key])
                            ELSE CommonKeyNonObject(local_map[key], remote_map[key])
                       ELSE local_map[key]
                  ELSE remote_map[key]])
    ELSE NotBothObjects(local, remote)

---------------------------------------------------------------------------
(* service.rs: save_translation_file.                                      *)

HasDot(s) == \E i \in DOMAIN s : s[i] = "."
FirstDot(s) == CHOOSE i \in DOMAIN s : s[i] = "." /\ \A j \in 1..(i - 1) : s[j] # "."

RECURSIVE split(_)
\* key.split('.').collect()
split(s) ==
    IF ~HasDot(s) THEN <<s>>
    ELSE <<SubSeq(s, 1, FirstDot(s) - 1)>> \o split(SubSeq(s, FirstDot(s) + 1, Len(s)))

Built(m)  == [ok |-> TRUE, map |-> m]
NotBuilt  == [ok |-> FALSE, map |-> EmptyMap]

RECURSIVE InsertPath_Overwrites(_, _, _)
\* mutant: an intermediate object is inserted anew even when the part is
\* already there (insert in place of entry().or_insert())
InsertPath_Overwrites(current, parts, value) ==
    IF Len(parts) = 1
    THEN Built(MapInsert(current, parts[1], Str(value)))
    ELSE LET sub == InsertPath_Overwrites(EmptyMap, Tail(parts), value)
         IN Built(MapInsert(current, Head(parts), Obj(sub.map)))

RECURSIVE InsertPath(_, _, _)
\* the loop over parts: the last part is inserted as a string, every other
\* part is entered (created as an empty object when absent) and must be an
\* object
InsertPath(current, parts, value) ==
    IF Len(parts) = 1
    THEN Built(MapInsert(current, parts[1], Str(value)))
    ELSE LET part  == Head(parts)
             entry == IF part \in DOMAIN current THEN current[part] ELSE Obj(EmptyMap)
         IN IF entry.t # "obj" THEN NotBuilt
            ELSE LET sub == InsertPath(entry.v, Tail(parts), value)
                 IN IF sub.ok THEN Built(MapInsert(current, part, Obj(sub.map)))
                    ELSE NotBuilt

RECURSIVE BuildJson(_, _, _)
\* the loop over translation.content, its entries visited in order
BuildJson(content, order, json_value) ==
    IF order = <<>> THEN Built(json_value)
    ELSE LET r == InsertPath(json_value, split(Head(order)), content[Head(order)])
         IN IF r.ok THEN BuildJson(content, Tail(order), r.map) ELSE NotBuilt

\* the tree save_translation_file builds from content, or its error; order
\* is the order in which the HashMap yields its keys
save_translation_file(content, order) == BuildJson(content, order, EmptyMap)

\* the orders in which a HashMap of these keys can be iterated
Perms(S) ==
    {f \in [1..Cardinality(S) -> S] : \A i, j \in 1..Cardinality(S) : f[i] = f[j] => i = j}

---------------------------------------------------------------------------
(* service.rs: push_translations and download_to_cache.                    *)

\* Config::base_language
base_language == "en-US"

\* mutant: the content is replaced by the new entries instead of extended
Extend_Replaces(content, more) == more

\* HashMap::extend: the entries of more replace those of content
Extend(content, more) ==
    [k \in (DOMAIN content) \cup (DOMAIN more) |->
        IF k \in DOMAIN more THEN more[k] ELSE content[k]]

NoFile == TranslationFile("", "", EmptyMap)

\* mutant: without a file of the base language the first file is taken
FindBase_FirstFile(translations) ==
    IF \E i \in DOMAIN translations : translations[i].language_code = base_language
    THEN translations[CHOOSE i \in DOMAIN translations :
            translations[i].language_code = base_language]
    ELSE IF translations = <<>> THEN NoFile ELSE translations[1]

\* .iter().find(|t| t.language_code == self.config.base_language)
FindBase(translations) ==
    IF \E i \in DOMAIN translations : translations[i].language_code = base_language
    THEN translations[CHOOSE i \in DOMAIN translations :
            /\ translations[i].language_code = base_language
            /\ \A j \in 1..(i - 1) : translations[j].language_code # base_language]
    ELSE NoFile

\* mutant: a key is uploaded whenever the remote value differs from the
\* local one
NeedUploadKeys_Differing(local_content, cached_content) ==
    {key \in DOMAIN local_content :
        \/ key \notin DOMAIN cached_content
        \/ cached_content[key] # local_content[key]}

\* the keys the loop over local_translation.content inserts into need_upload
NeedUploadKeys(local_content, cached_content) ==
    {key \in DOMAIN local_content :
        \/ key \notin DOMAIN cached_content
        \/ trim_is_empty(cached_content[key])}

\* mutant: a key the remote has is uploaded with the remote's value
NeedUpload_RemoteValue(local_content, cached_content) ==
    [key \in NeedUploadKeys(local_content, cached_content) |->
        IF key \in DOMAIN cached_content THEN cached_content[key]
        ELSE local_content[key]]

\* need_upload, for a language found in cached_translations
NeedUpload(local_content, cached_content) ==
    [key \in NeedUploadKeys(local_content, cached_content) |-> local_content[key]]

\* mutant: without a cached set nothing is taken to need uploading
FirstTimeUpload_Nothing(local_translation) == EmptyMap

\* the content uploaded for a language that cached_translations lacks: the
\* local translation itself
FirstTimeUpload(local_translation) == local_translation.content

NoDelta == [language_code |-> "", cached |-> FALSE, content |-> EmptyMap]

---------------------------------------------------------------------------
(* The inputs the model draws.                                             *)

\* every map from a subset of K to V
MapsOver(K, V) == UNION {[D -> V] : D \in SUBSET K}

RECURSIVE ObjectsUpTo(_, _, _)
\* Objects of nesting depth at most d: every object of leaves, and every
\* object of one key holding an object of depth at most d - 1.
ObjectsUpTo(K, L, d) ==
    IF d <= 1 THEN {Obj(m) : m \in MapsOver(K, L)}
    ELSE LET prev == ObjectsUpTo(K, L, d - 1)
         IN prev \cup {Obj([x \in {k} |-> tr]) : k \in K, tr \in prev}

ValuesUpTo(K, L, d) == L \cup ObjectsUpTo(K, L, d)

MergeKeys == {<<"a">>, <<"b">>}
MergeLeaves ==
    {Str(<<>>), Str(<<" ">>), Str(<<"x">>), Str(<<"y">>), Num(1),
     Arr(<<Str(<<"x">>)>>)}
MergeValues == ValuesUpTo(MergeKeys, MergeLeaves, MaxDepth)

FlattenKeys == {<<>>, <<"a">>, <<"b">>, <<"a", ".", "b">>}
FlattenLeaves ==
    {Str(<<"x">>), Num(1), Bool(TRUE), Null, Arr(<<Str(<<"x">>), Num(1)>>)}
\* objects of two keys, one holding a leaf and one an object of one leaf:
\* the trees in which two leaves can have the same dotted path
FlattenSiblings ==
    {Obj([x \in {k1, k2} |-> IF x = k1 THEN Obj([y \in {j} |-> l1]) ELSE l2]) :
        <<k1, k2, j, l1, l2>> \in
            {q \in FlattenKeys \X FlattenKeys \X FlattenKeys
                      \X FlattenLeaves \X FlattenLeaves : q[1] # q[2]}}
FlattenValues ==
    ValuesUpTo(FlattenKeys, FlattenLeaves, MaxDepth) \cup FlattenSiblings

FlatKeyList == <<<<"a">>, <<"b">>, <<"a", ".", "b">>, <<"c">>, <<"c", ".", "d">>>>
FlatKeys == {FlatKeyList[i] : i \in 1..MaxFlatKeys}
FlatTexts == {<<"1">>, <<"2">>, <<"x">>}
FlatContents == MapsOver(FlatKeys, FlatTexts)

None == [t |-> "none", v |-> 0]

\* push: the languages, their files in the order the glob finds them, and
\* what the remote service holds
Langs == {"en-US", "zh-CN"}
LangOrder == <<"en-US", "zh-CN">>
PushKeys == {<<"a">>, <<"b">>}
LocalText(lang) == IF lang = base_language THEN <<"h">> ELSE <<"g">>
RemoteTexts == {<<>>, <<" ">>, <<"h">>}
LocalFilesOf(lang) ==
    {TranslationFile(lang, lang \o ".json", c) : c \in MapsOver(PushKeys, {LocalText(lang)})}
LangSeqs ==
    {o \in UNION {[1..n -> Langs] : n \in 0..Cardinality(Langs)} :
        \A i, j \in DOMAIN o : o[i] = o[j] => i = j}
LocalFileSeqs ==
    UNION {{f \in [DOMAIN o -> UNION {LocalFilesOf(l) : l \in Langs}] :
                \A i \in DOMAIN o : f[i].language_code = o[i]} : o \in LangSeqs}
RemoteTrees == {Obj(m) : m \in MapsOver(PushKeys, {Str(x) : x \in RemoteTexts})}

---------------------------------------------------------------------------
(* Specifications.  Each one draws the inputs of one function and applies  *)
(* it; the variables of the others stay idle.                              *)

PushIdle ==
    /\ pc = "idle" /\ local_files = <<>> /\ local_translations = <<>>
    /\ base_translation = NoFile /\ idx = 0 /\ saved = EmptyMap
    /\ cache_dir = EmptyMap /\ remote_service = EmptyMap /\ cached_translations = EmptyMap
    /\ delta = NoDelta /\ uploads = <<>> /\ result = "none"
    /\ cache_result = "none" /\ fetch_failed = {}

MainIdle ==
    /\ cli_command = "none" /\ main_pc = "idle" /\ retry = 0 /\ latest_version = 0
    /\ gate = "none" /\ handler = "none" /\ handler_result = "none"
    /\ exit_code = "none" /\ config_file = "absent" /\ config_before = "absent"
    /\ service_ran = FALSE /\ installed = FALSE

SyncIdle ==
    /\ command = "none" /\ sync_pc = "idle" /\ remote_blobs = EmptyMap
    /\ files_to_download = <<>> /\ target_dir = EmptyMap /\ local_dir = EmptyMap
    /\ sync_files = <<>> /\ sync_idx = 0
    /\ success_count = 0 /\ failed_count = 0 /\ sync_result = "none"
    /\ turns = <<>> /\ local_before = EmptyMap

MergeIdle ==
    /\ local_json = None /\ remote_json = None
    /\ merged_content = None /\ merge_pc = "idle"
FlattenIdle ==
    /\ json = None /\ flattened = EmptyMap /\ flatten_pc = "idle"
    /\ save_result = None /\ file = None
MissingIdle ==
    /\ base = None /\ other = None /\ missing = EmptyMap /\ missing_pc = "idle"

\* ---- merge_json_content ----
MergeInit ==
    /\ local_json \in MergeValues
    /\ remote_json \in MergeValues
    /\ merged_content = None
    /\ merge_pc = "read"
    /\ FlattenIdle /\ MissingIdle /\ PushIdle /\ SyncIdle /\ MainIdle

\* let merged_content = Self::merge_json_content(&local_json, remote)
Merge ==
    /\ merge_pc = "read"
    /\ merged_content' = merge_json_content(local_json, remote_json)
    /\ merge_pc' = "merged"
    /\ UNCHANGED <<local_json, remote_json, flattenVars, missingVars, pushVars, syncVars, mainVars>>

\* a second pull against the same remote snapshot: the merged tree written
\* by the first is the local tree of the second
MergeAgain ==
    /\ merge_pc = "merged"
    /\ local_json' = merged_content
    /\ merged_content' = merge_json_content(merged_content, remote_json)
    /\ merge_pc' = "again"
    /\ UNCHANGED <<remote_json, flattenVars, missingVars, pushVars, syncVars, mainVars>>

MergeNext == Merge \/ MergeAgain
SpecMerge == MergeInit /\ [][MergeNext]_vars

\* ---- flatten_json ----
FlattenInit ==
    /\ json \in FlattenValues
    /\ flattened = EmptyMap
    /\ flatten_pc = "parsed"
    /\ save_result = None /\ file = None
    /\ MergeIdle /\ MissingIdle /\ PushIdle /\ SyncIdle /\ MainIdle

Flatten ==
    /\ flatten_pc = "parsed"
    /\ flattened' = flatten_json(json)
    /\ flatten_pc' = "flattened"
    /\ UNCHANGED <<json, save_result, file, mergeVars, missingVars, pushVars, syncVars, mainVars>>

\* save_translation_file on a flat mapping: the tree is built entry by entry
\* in the order the HashMap yields them, then written; nothing is written
\* when the building or the writing fails
Save ==
    /\ flatten_pc = "flattened"
    /\ \E order \in Perms(DOMAIN flattened), written \in BOOLEAN :
          LET tree == save_translation_file(flattened, order)
          IN /\ save_result' = tree
             /\ file' = IF tree.ok /\ written THEN Obj(tree.map) ELSE None
    /\ flatten_pc' = "saved"
    /\ UNCHANGED <<json, flattened, mergeVars, missingVars, pushVars, syncVars, mainVars>>

FlattenNext == Flatten \/ Save
SpecFlatten == FlattenInit /\ [][FlattenNext]_vars

\* ---- save_translation_file, on any flat mapping ----
SaveInit ==
    /\ flattened \in FlatContents
    /\ flatten_pc = "flattened"
    /\ json = None /\ save_result = None /\ file = None
    /\ MergeIdle /\ MissingIdle /\ PushIdle /\ SyncIdle /\ MainIdle

SaveNext == Save
SpecSave == SaveInit /\ [][SaveNext]_vars

\* ---- get_missing_keys ----
MissingInit ==
    /\ base \in {TranslationFile("en-US", "en-US.json", c) : c \in FlatContents}
    /\ other \in {TranslationFile("zh-CN", "zh-CN.json", c) : c \in FlatContents}
    /\ missing = EmptyMap
    /\ missing_pc = "call"
    /\ MergeIdle /\ FlattenIdle /\ PushIdle /\ SyncIdle /\ MainIdle

GetMissingKeys ==
    /\ missing_pc = "call"
    /\ missing' = get_missing_keys(base, other)
    /\ missing_pc' = "returned"
    /\ UNCHANGED <<base, other, mergeVars, flattenVars, pushVars, syncVars, mainVars>>

MissingNext == GetMissingKeys
SpecMissing == MissingInit /\ [][MissingNext]_vars

\* ---- push_translations ----
\* a cache file that an earlier run left behind
StaleTree == Obj([k \in {<<"z">>} |-> Str(<<"o">>)])

\* mutant: the directory is only created, not removed first
prepare_cache_dir_KeepsFiles(dir) == dir

\* prepare_cache_dir when it returns Ok: remove_dir_all, then create_dir_all
prepare_cache_dir(dir) == EmptyMap

\* mutant: the files cached before the error are kept
CachedOrEmpty_KeepsPartial(returned, cached_files) == cached_files

\* the match on download_to_cache's result: the map it returned, or
\* HashMap::new() when it returned Err
CachedOrEmpty(returned, cached_files) ==
    IF returned = "Ok" THEN cached_files ELSE EmptyMap

\* StatusCode::is_success
is_success(status) == status >= 200 /\ status < 300

\* the responses an upload request can get: it is not sent, its body cannot
\* be read, or it comes back with a status
Statuses == {200, 302, 400}
Responses ==
    {[sent |-> FALSE, body_read |-> FALSE, status |-> 0]}
       \cup {[sent |-> TRUE, body_read |-> b, status |-> st] :
                b \in BOOLEAN, st \in Statuses}

\* mutant: the status is not looked at
upload_translation_IgnoresStatus(response) ==
    IF ~response.sent THEN "Err"
    ELSE IF ~response.body_read THEN "Err"
    ELSE "Ok"

\* api::upload_translation as a function of the response
upload_translation(response) ==
    IF ~response.sent THEN "Err"
    ELSE IF ~response.body_read THEN "Err"
    ELSE IF ~is_success(response.status) THEN "Err"
    ELSE "Ok"

PushInit ==
    /\ pc = "start"
    /\ local_files \in LocalFileSeqs
    /\ remote_service \in [Langs -> RemoteTrees \cup {None}]
    /\ cache_dir \in {EmptyMap, [l \in {"zh-CN"} |-> StaleTree]}
    /\ local_translations = <<>> /\ base_translation = NoFile /\ idx = 0
    /\ saved = EmptyMap /\ cached_translations = EmptyMap
    /\ delta = NoDelta /\ uploads = <<>> /\ result = "running"
    /\ cache_result = "none" /\ fetch_failed = {}
    /\ MergeIdle /\ FlattenIdle /\ MissingIdle /\ SyncIdle /\ MainIdle

otherVars == <<mergeVars, flattenVars, missingVars, syncVars, mainVars>>

\* the files the manifest lists: one per language the service holds
Manifest == SelectSeq(LangOrder, LAMBDA l : remote_service[l] # None)

\* steps 1 and 2: read the local files, find the base language's
PushStart ==
    /\ pc = "start"
    /\ local_translations' = local_files
    /\ base_translation' = FindBase(local_files)
    /\ IF FindBase(local_files) = NoFile
       THEN pc' = "done" /\ result' = "Err: base language not found" /\ idx' = 0
       ELSE pc' = "backfill" /\ result' = result /\ idx' = 1
    /\ UNCHANGED <<local_files, saved, cache_dir, remote_service, cached_translations,
                   delta, uploads, cache_result, fetch_failed, otherVars>>

\* step 3, one turn of the loop over local_translations
PushBackfill ==
    /\ pc = "backfill"
    /\ LET translation  == local_translations[idx]
           missing_keys == get_missing_keys(base_translation, translation)
           updated      == [translation EXCEPT
                               !.content = Extend(@, missing_keys)]
           next_pc      == IF idx = Len(local_translations) THEN "cache" ELSE "backfill"
       IN IF translation.language_code = base_language \/ missing_keys = EmptyMap
          THEN /\ pc' = next_pc /\ idx' = idx + 1
               /\ UNCHANGED <<local_translations, saved, result>>
          ELSE \E order \in Perms(DOMAIN updated.content), written \in BOOLEAN :
                  LET tree == save_translation_file(updated.content, order)
                  IN /\ local_translations' = [local_translations EXCEPT ![idx] = updated]
                     /\ IF tree.ok /\ written
                        THEN /\ saved' = MapInsert(saved, translation.language_code,
                                                   Obj(tree.map))
                             /\ pc' = next_pc /\ idx' = idx + 1 /\ result' = result
                        ELSE /\ pc' = "done" /\ result' = "Err: save" /\ idx' = idx
                             /\ saved' = saved
    /\ UNCHANGED <<local_files, base_translation, cache_dir, remote_service,
                   cached_translations, delta, uploads, cache_result, fetch_failed,
                   otherVars>>

\* step 4, download_to_cache up to its loop: prepare_cache_dir, then
\* api::get_translation_config
CacheStart ==
    /\ pc = "cache"
    /\ \E outcome \in {"prepare failed", "config failed", "ok"} :
          /\ IF outcome = "prepare failed"
             THEN cache_dir' \in {cache_dir, EmptyMap}
             ELSE cache_dir' = prepare_cache_dir(cache_dir)
          /\ pc' = IF outcome = "ok" /\ Manifest # <<>> THEN "fetch" ELSE "upload"
          /\ cache_result' = IF outcome # "ok" THEN "Err"
                             ELSE IF Manifest = <<>> THEN "Ok" ELSE "none"
          /\ cached_translations' =
                IF outcome # "ok" THEN CachedOrEmpty("Err", EmptyMap) ELSE EmptyMap
    /\ idx' = 1
    /\ UNCHANGED <<local_files, local_translations, base_translation, saved,
                   remote_service, delta, uploads, result, fetch_failed, otherVars>>

\* one turn of the loop of download_to_cache over files_to_download
CacheFetch ==
    /\ pc = "fetch"
    /\ LET lang == Manifest[idx]
           next_pc == IF idx = Len(Manifest) THEN "upload" ELSE "fetch"
           next_idx == IF idx = Len(Manifest) THEN 1 ELSE idx + 1
           flat == flatten_json_inner(remote_service[lang], <<>>, EmptyMap)
           cached == IF lang \in DOMAIN cached_translations
                     THEN [cached_translations[lang] EXCEPT !.content = Extend(@, flat)]
                     ELSE TranslationFile(lang, lang \o ".json", flat)
           returned == IF idx = Len(Manifest) THEN "Ok" ELSE "none"
       IN \E outcome \in {"no url", "download failed", "no language key",
                           "parse failed", "write failed", "ok"} :
            CASE outcome \in {"no url", "download failed", "no language key"} ->
                    /\ pc' = next_pc /\ idx' = next_idx
                    /\ cache_result' = returned
                    /\ fetch_failed' = IF outcome = "download failed"
                                       THEN fetch_failed \cup {lang} ELSE fetch_failed
                    /\ UNCHANGED <<cached_translations, cache_dir>>
              [] outcome = "parse failed" ->
                    \* serde_json::from_str(..)?: download_to_cache returns Err
                    /\ pc' = "upload" /\ idx' = 1
                    /\ cache_result' = "Err"
                    /\ cached_translations' = CachedOrEmpty("Err", cached_translations)
                    /\ UNCHANGED <<cache_dir, fetch_failed>>
              [] outcome = "write failed" ->
                    \* std::fs::write(..)? after cached_files.insert(..)
                    /\ pc' = "upload" /\ idx' = 1
                    /\ cache_result' = "Err"
                    /\ cached_translations' =
                          CachedOrEmpty("Err", MapInsert(cached_translations, lang, cached))
                    /\ UNCHANGED <<cache_dir, fetch_failed>>
              [] outcome = "ok" ->
                    /\ pc' = next_pc /\ idx' = next_idx
                    /\ cache_result' = returned
                    /\ cached_translations' = MapInsert(cached_translations, lang, cached)
                    /\ cache_dir' = MapInsert(cache_dir, lang, remote_service[lang])
                    /\ fetch_failed' = fetch_failed
    /\ UNCHANGED <<local_files, local_translations, base_translation, saved,
                   remote_service, delta, uploads, result, otherVars>>

\* step 5, one turn of the loop over local_translations
PushUpload ==
    /\ pc = "upload"
    /\ LET local_translation == local_translations[idx]
           lang_code == local_translation.language_code
           is_cached == lang_code \in DOMAIN cached_translations
           need_upload ==
               IF is_cached
               THEN NeedUpload(local_translation.content,
                               cached_translations[lang_code].content)
               ELSE FirstTimeUpload(local_translation)
           next_pc == IF idx = Len(local_translations) THEN "cleanup" ELSE "upload"
       IN /\ delta' = [language_code |-> lang_code, cached |-> is_cached,
                      content |-> need_upload]
          /\ IF is_cached /\ need_upload = EmptyMap
             THEN /\ pc' = next_pc /\ idx' = idx + 1
                  /\ UNCHANGED <<uploads, result>>
             ELSE \E response \in Responses :
                    LET ok == upload_translation(response) = "Ok"
                    IN
                    /\ uploads' = Append(uploads,
                           [language_code |-> lang_code, content |-> need_upload,
                            ok |-> ok, response |-> response])
                    /\ IF ok THEN pc' = next_pc /\ idx' = idx + 1 /\ result' = result
                             ELSE pc' = "done" /\ idx' = idx /\ result' = "Err: upload"
    /\ UNCHANGED <<local_files, local_translations, base_translation, saved,
                   cache_dir, remote_service, cached_translations, cache_result,
                   fetch_failed, otherVars>>

\* step 6: remove the cache directory (a failure is only logged)
PushCleanup ==
    /\ pc = "cleanup"
    /\ cache_dir' \in {EmptyMap, cache_dir}
    /\ pc' = "done" /\ result' = "Ok"
    /\ UNCHANGED <<local_files, local_translations, base_translation, idx, saved,
                   remote_service, cached_translations, delta, uploads, cache_result,
                   fetch_failed, otherVars>>

Next == PushStart \/ PushBackfill \/ CacheStart \/ CacheFetch \/ PushUpload \/ PushCleanup
Spec == PushInit /\ [][Next]_vars

\* ---- download_translations and sync_translations ----
SyncLangs == {"en-US", "ja-JP", "zh-CN"}
\* the order in which glob finds the local files, and the manifest lists them
SyncLangOrder == <<"en-US", "ja-JP", "zh-CN">>
SyncRemoteTrees ==
    {Obj([k \in {<<"a">>} |-> Str(<<"y">>)]),
     Obj([k \in {<<"a">>, <<"b">>} |->
            IF k = <<"a">> THEN Str(<<" ">>) ELSE Str(<<"y">>)])}
SyncLocalTrees ==
    {Obj([k \in {<<"a">>} |-> Str(<<"x">>)]),
     Obj([k \in {<<"a">>, <<"c">>} |-> Str(<<"x">>)])}

\* config_response.data.files when it is None
NoFileList == <<"None">>

\* the languages of S in the order of SyncLangOrder
InSyncOrder(S) == SelectSeq(SyncLangOrder, LAMBDA l : l \in S)

\* the languages the remote service has a file for
RemoteLangs == {l \in SyncLangs : remote_blobs[l] # None}

SyncInit ==
    /\ command \in {"download", "pull"}
    /\ sync_pc = "start"
    /\ remote_blobs \in [SyncLangs -> SyncRemoteTrees \cup {None}]
    /\ files_to_download \in
          (IF RemoteLangs = {} THEN {NoFileList, <<>>} ELSE {InSyncOrder(RemoteLangs)})
    /\ IF command = "download"
       THEN /\ target_dir \in
                  {EmptyMap, [l \in {"ja-JP"} |-> Obj(EmptyMap)]}
            /\ local_dir = EmptyMap
       ELSE /\ target_dir = EmptyMap
            /\ \E tree \in SyncLocalTrees :
                  local_dir \in {[l \in S |-> tree] : S \in SUBSET SyncLangs}
    /\ sync_files = <<>> /\ sync_idx = 0
    /\ success_count = 0 /\ failed_count = 0 /\ sync_result = "running"
    /\ turns = <<>> /\ local_before = local_dir
    /\ MergeIdle /\ FlattenIdle /\ MissingIdle /\ PushIdle /\ MainIdle

notSyncVars == <<mergeVars, flattenVars, missingVars, pushVars, mainVars>>

\* download_translations up to its loop: the target directory is removed
\* and created again, then the manifest is fetched
DownloadStart ==
    /\ command = "download" /\ sync_pc = "start"
    /\ \E outcome \in {"clean failed", "config failed", "ok"} :
          CASE outcome = "clean failed" ->
                  /\ target_dir' \in {target_dir, EmptyMap}
                  /\ sync_pc' = "done" /\ sync_result' = "Err: target directory"
                  /\ sync_idx' = sync_idx
            [] outcome = "config failed" ->
                  /\ target_dir' = EmptyMap
                  /\ sync_pc' = "done" /\ sync_result' = "Err: config"
                  /\ sync_idx' = sync_idx
            [] outcome = "ok" ->
                  /\ target_dir' = EmptyMap
                  /\ sync_idx' = 1
                  /\ IF files_to_download = NoFileList \/ files_to_download = <<>>
                     THEN sync_pc' = "done" /\ sync_result' = "Ok"
                     ELSE sync_pc' = "loop" /\ sync_result' = sync_result
    /\ UNCHANGED <<command, remote_blobs, files_to_download, local_dir, sync_files,
                   success_count, failed_count, turns, local_before, notSyncVars>>

\* one turn of the loop of download_translations over files_to_download;
\* after the last turn the function returns Ok(())
DownloadFile ==
    /\ command = "download" /\ sync_pc = "loop"
    /\ LET lang == files_to_download[sync_idx]
           last == sync_idx = Len(files_to_download)
       IN \E outcome \in {"download failed", "parse failed", "no language key",
                           "write failed", "ok"} :
            /\ CASE outcome \in {"download failed", "no language key"} ->
                    /\ failed_count' = failed_count + 1
                    /\ sync_idx' = sync_idx + 1
                    /\ sync_pc' = IF last THEN "done" ELSE "loop"
                    /\ sync_result' = IF last THEN "Ok" ELSE sync_result
                    /\ UNCHANGED <<success_count, target_dir>>
              [] outcome \in {"parse failed", "write failed"} ->
                    \* serde_json::from_str(..)? and std::fs::write(..)?
                    /\ sync_pc' = "done"
                    /\ sync_result' = "Err: " \o outcome
                    /\ UNCHANGED <<success_count, failed_count, target_dir, sync_idx>>
              [] outcome = "ok" ->
                    /\ target_dir' = MapInsert(target_dir, lang, remote_blobs[lang])
                    /\ success_count' = success_count + 1
                    /\ sync_idx' = sync_idx + 1
                    /\ sync_pc' = IF last THEN "done" ELSE "loop"
                    /\ sync_result' = IF last THEN "Ok" ELSE sync_result
                    /\ failed_count' = failed_count
            /\ turns' = Append(turns, outcome)
    /\ UNCHANGED <<command, remote_blobs, files_to_download, local_dir, sync_files,
                   local_before, notSyncVars>>

\* sync_translations up to its loop: the manifest is fetched and must list a
\* file, the local files are read and there must be one
SyncStart ==
    /\ command = "pull" /\ sync_pc = "start"
    /\ \E outcome \in {"config failed", "read failed", "ok"},
          readable \in SUBSET (DOMAIN local_dir) :
          IF outcome # "ok"
          THEN /\ sync_pc' = "done" /\ sync_result' = "Err: " \o outcome
               /\ UNCHANGED <<sync_files, sync_idx>>
          ELSE IF files_to_download = NoFileList \/ files_to_download = <<>>
          THEN /\ sync_pc' = "done" /\ sync_result' = "Err: no remote files"
               /\ UNCHANGED <<sync_files, sync_idx>>
          ELSE IF readable = {}
          THEN /\ sync_pc' = "done" /\ sync_result' = "Err: no local files"
               /\ sync_files' = <<>> /\ sync_idx' = sync_idx
          ELSE /\ sync_pc' = "loop" /\ sync_result' = sync_result
               /\ sync_files' = InSyncOrder(readable) /\ sync_idx' = 1
    /\ UNCHANGED <<command, remote_blobs, files_to_download, target_dir, local_dir,
                   success_count, failed_count, turns, local_before, notSyncVars>>

\* mutant: the merged tree is not computed, the remote tree is written
FileAfterSync_RemoteOnly(outcome, local_tree, remote_tree) ==
    IF outcome = "ok" THEN remote_tree ELSE local_tree

\* mutant: the local file is emptied before the remote blob is fetched
FileAfterSync_Truncates(outcome, local_tree, remote_tree) ==
    IF outcome = "ok" THEN merge_json_content(local_tree, remote_tree)
    ELSE IF outcome = "download failed" THEN Obj(EmptyMap)
    ELSE local_tree

\* the tree a local file holds after its turn of the loop of
\* sync_translations: the merged tree when the turn got to std::fs::write,
\* what it held before otherwise
FileAfterSync(outcome, local_tree, remote_tree) ==
    IF outcome = "ok" THEN merge_json_content(local_tree, remote_tree)
    ELSE local_tree

\* ensure!(success_count > 0, ..) and the Ok(()) after the loop
SyncEnd(successes) == IF successes > 0 THEN "Ok" ELSE "Err: no language synced"

\* one turn of the loop of sync_translations over local_files; after the
\* last turn the function ends with SyncEnd
SyncFile ==
    /\ command = "pull" /\ sync_pc = "loop"
    /\ LET lang_code == sync_files[sync_idx]
           last == sync_idx = Len(sync_files)
           listed == \E i \in DOMAIN files_to_download : files_to_download[i] = lang_code
           outcomes == IF listed
                       THEN {"download failed", "parse failed", "no language key",
                             "read failed", "write failed", "ok"}
                       ELSE {"not listed"}
           written(outcome) ==
               [local_dir EXCEPT ![lang_code] =
                   FileAfterSync(outcome, @, remote_blobs[lang_code])]
       IN \E outcome \in outcomes :
            /\ CASE outcome \in {"download failed", "no language key", "not listed"} ->
                    /\ failed_count' = failed_count + 1
                    /\ sync_idx' = sync_idx + 1
                    /\ sync_pc' = IF last THEN "done" ELSE "loop"
                    /\ sync_result' = IF last THEN SyncEnd(success_count) ELSE sync_result
                    /\ local_dir' = written(outcome)
                    /\ UNCHANGED success_count
              [] outcome \in {"parse failed", "read failed", "write failed"} ->
                    \* the ? after from_str, read_to_string, create_dir_all
                    \* and write
                    /\ sync_pc' = "done"
                    /\ sync_result' = "Err: " \o outcome
                    /\ UNCHANGED <<success_count, failed_count, local_dir, sync_idx>>
              [] outcome = "ok" ->
                    /\ local_dir' = written(outcome)
                    /\ success_count' = success_count + 1
                    /\ sync_idx' = sync_idx + 1
                    /\ sync_pc' = IF last THEN "done" ELSE "loop"
                    /\ sync_result' = IF last THEN SyncEnd(success_count + 1)
                                               ELSE sync_result
                    /\ failed_count' = failed_count
            /\ turns' = Append(turns, outcome)
    /\ UNCHANGED <<command, remote_blobs, files_to_download, target_dir, sync_files,
                   local_before, notSyncVars>>

SyncNext == DownloadStart \/ DownloadFile \/ SyncStart \/ SyncFile
SpecSync == SyncInit /\ [][SyncNext]_vars

---------------------------------------------------------------------------
(* Properties of merge_json_content (SpecMerge).                           *)

\* the value of key in tree, None when tree is no object or lacks the key
Get(tree, key) ==
    IF tree.t = "obj" /\ key \in DOMAIN tree.v THEN tree.v[key] ELSE None

RECURSIVE CommonTriples(_, _, _)
\* <<local value, remote value, merged value>> of every key common to local
\* and remote, at every path where both sides are objects
CommonTriples(l, r, m) ==
    IF l.t = "obj" /\ r.t = "obj"
    THEN UNION {{<<l.v[k], r.v[k], Get(m, k)>>}
                    \cup CommonTriples(l.v[k], r.v[k], Get(m, k)) :
                k \in (DOMAIN l.v) \cap (DOMAIN r.v)}
    ELSE {}

RECURSIVE UnionOfKeysEverywhere(_, _, _)
\* at every path where both sides are objects: the merged object has the
\* keys of both, local-only keys with the local value, remote-only keys with
\* the remote value
UnionOfKeysEverywhere(l, r, m) ==
    (l.t = "obj" /\ r.t = "obj") =>
        /\ m.t = "obj"
        /\ DOMAIN m.v = (DOMAIN l.v) \cup (DOMAIN r.v)
        /\ \A k \in (DOMAIN l.v) \ (DOMAIN r.v) : Get(m, k) = l.v[k]
        /\ \A k \in (DOMAIN r.v) \ (DOMAIN l.v) : Get(m, k) = r.v[k]
        /\ \A k \in (DOMAIN l.v) \cap (DOMAIN r.v) :
              UnionOfKeysEverywhere(l.v[k], r.v[k], Get(m, k))

RECURSIVE UnionOfKeysButBlankRemote(_, _, _)
\* the same, a remote-only key whose value is a blank string being left out
UnionOfKeysButBlankRemote(l, r, m) ==
    (l.t = "obj" /\ r.t = "obj") =>
        /\ m.t = "obj"
        /\ DOMAIN m.v = (DOMAIN l.v) \cup
              {k \in DOMAIN r.v : k \in DOMAIN l.v \/ ~IsBlankString(r.v[k])}
        /\ \A k \in (DOMAIN l.v) \ (DOMAIN r.v) : Get(m, k) = l.v[k]
        /\ \A k \in (DOMAIN r.v) \ (DOMAIN l.v) :
              ~IsBlankString(r.v[k]) => Get(m, k) = r.v[k]
        /\ \A k \in (DOMAIN l.v) \cap (DOMAIN r.v) :
              UnionOfKeysButBlankRemote(l.v[k], r.v[k], Get(m, k))

\* C4, as claimed: where both sides are objects the merged object has
\* exactly the keys of local union remote, local-only keys keep the local
\* value, every remote-only key is added with the remote value, and common
\* object keys hold the recursive merge.
C4_MergedKeysAreUnion ==
    merge_pc = "merged" =>
        UnionOfKeysEverywhere(local_json, remote_json, merged_content)

\* C4, amended: the same, except that a remote-only key whose value is an
\* empty or whitespace-only string is not added.
C4_MergedKeysAreUnionButBlankRemote ==
    merge_pc = "merged" =>
        UnionOfKeysButBlankRemote(local_json, remote_json, merged_content)

C4_Witness ==
    /\ merge_pc = "merged"
    /\ local_json.t = "obj" /\ remote_json.t = "obj"
    /\ \E k \in DOMAIN local_json.v \cap DOMAIN remote_json.v :
          /\ local_json.v[k].t = "obj" /\ remote_json.v[k].t = "obj"
          /\ \E j \in DOMAIN remote_json.v[k].v :
                /\ j \notin DOMAIN local_json.v[k].v
                /\ IsBlankString(remote_json.v[k].v[j])
          /\ \E j \in DOMAIN local_json.v[k].v : j \notin DOMAIN remote_json.v[k].v

\* C5: for a common key whose local value is a non-empty scalar and whose
\* remote value is an empty or whitespace-only string, the merged value is
\* the local value.
C5_PopulatedLocalKept ==
    merge_pc = "merged" =>
        \A tr \in CommonTriples(local_json, remote_json, merged_content) :
            (NonEmptyScalar(tr[1]) /\ IsBlankString(tr[2])) => tr[3] = tr[1]

C5_Witness ==
    /\ merge_pc = "merged"
    /\ \E tr \in CommonTriples(local_json, remote_json, merged_content) :
          /\ tr[1] = Str(<<"x">>) /\ tr[2] = Str(<<" ">>) /\ tr[3] = tr[1]

\* C6: for a common key whose remote value is a non-empty scalar, the merged
\* value is the remote value, the local value being a scalar or an object.
C6_PopulatedRemoteWins ==
    merge_pc = "merged" =>
        \A tr \in CommonTriples(local_json, remote_json, merged_content) :
            NonEmptyScalar(tr[2]) => tr[3] = tr[2]

C6_Witness ==
    /\ merge_pc = "merged"
    /\ \E tr \in CommonTriples(local_json, remote_json, merged_content) :
          tr[1].t = "obj" /\ tr[2] = Str(<<"y">>) /\ tr[3] = tr[2]

\* the combinations C7 is about: not object/object, not populated local
\* scalar against blank remote string, not populated remote scalar
OtherCombination(local_value, remote_value) ==
    /\ ~(local_value.t = "obj" /\ remote_value.t = "obj")
    /\ ~(NonEmptyScalar(local_value) /\ IsBlankString(remote_value))
    /\ ~NonEmptyScalar(remote_value)

\* C7, as claimed: in every other combination the merged value is the
\* remote value verbatim.
C7_OtherCombinationsUseRemote ==
    merge_pc = "merged" =>
        \A tr \in CommonTriples(local_json, remote_json, merged_content) :
            OtherCombination(tr[1], tr[2]) => tr[3] = tr[2]

\* C7, amended: in every other combination the merged value is the remote
\* value verbatim unless the remote value is an empty or whitespace-only
\* string, against which the local value is kept whatever it is.
C7_OtherCombinationsUseRemoteUnlessBlank ==
    merge_pc = "merged" =>
        \A tr \in CommonTriples(local_json, remote_json, merged_content) :
            OtherCombination(tr[1], tr[2]) =>
                tr[3] = (IF IsBlankString(tr[2]) THEN tr[1] ELSE tr[2])

C7_Witness ==
    /\ merge_pc = "merged"
    /\ \E tr \in CommonTriples(local_json, remote_json, merged_content) :
          tr[1].t = "obj" /\ tr[2] = Str(<<" ">>) /\ tr[3] = tr[1]

\* C8: merge is idempotent: merge(T, T) = T, and merging the result of
\* merge(L, R) with R again gives that result.
C8_MergeIdempotent ==
    /\ (merge_pc = "merged" /\ local_json = remote_json) =>
            merged_content = local_json
    /\ merge_pc = "again" => merged_content = local_json

C8_Witness ==
    /\ merge_pc = "again"
    /\ remote_json.t = "obj" /\ merged_content.t = "obj"
    /\ merged_content # remote_json
    /\ \E k \in DOMAIN remote_json.v :
          IsBlankString(remote_json.v[k]) /\ Get(merged_content, k).t = "obj"
    /\ \E k \in DOMAIN remote_json.v : k \notin DOMAIN merged_content.v

---------------------------------------------------------------------------
(* Properties of get_missing_keys (SpecMissing).                           *)

\* C9: missingKeys(base, other) is exactly the entries of base.content whose
\* key is absent from other.content, with base's values; it is empty when
\* other has every key of base, and holds no key of other.
C9_MissingKeysExact ==
    missing_pc = "returned" =>
        /\ DOMAIN missing = (DOMAIN base.content) \ (DOMAIN other.content)
        /\ \A k \in DOMAIN missing : missing[k] = base.content[k]
        /\ (DOMAIN base.content \subseteq DOMAIN other.content) => missing = EmptyMap
        /\ (DOMAIN missing) \cap (DOMAIN other.content) = {}

C9_Witness ==
    /\ missing_pc = "returned"
    /\ base.content = [k \in {<<"a">>, <<"b">>} |-> IF k = <<"a">> THEN <<"1">> ELSE <<"2">>]
    /\ other.content = [k \in {<<"a">>} |-> <<"x">>]
    /\ missing = [k \in {<<"b">>} |-> <<"2">>]

---------------------------------------------------------------------------
(* Properties of flatten_json (SpecFlatten).                               *)

RECURSIVE LeafPaths(_, _)
\* <<path, leaf>> of every non-object leaf below value, path being the
\* object keys from the root
LeafPaths(value, path) ==
    IF value.t = "obj"
    THEN UNION {LeafPaths(value.v[k], Append(path, k)) : k \in DOMAIN value.v}
    ELSE {<<path, value>>}

JoinDots(path) == JoinWith(path, <<".">>)

LeafText(leaf) == IF leaf.t = "str" THEN leaf.v ELSE to_string(leaf)

\* C10: flatten yields one entry per non-object leaf and nothing else; the
\* key is the path's object keys joined with '.', the value the leaf
\* verbatim (a string) or its canonical text (anything else, an array as a
\* whole).
C10_FlattenOneEntryPerLeaf ==
    flatten_pc = "flattened" =>
        LET leaves == LeafPaths(json, <<>>)
        IN /\ DOMAIN flattened = {JoinDots(l[1]) : l \in leaves}
           /\ Cardinality(DOMAIN flattened) = Cardinality(leaves)
           /\ \A l \in leaves :
                 JoinDots(l[1]) \in DOMAIN flattened
                    => flattened[JoinDots(l[1])] = LeafText(l[2])

RECURSIVE NoArrays(_)
NoArrays(value) ==
    IF value.t = "obj" THEN \A k \in DOMAIN value.v : NoArrays(value.v[k])
    ELSE value.t # "arr"

RECURSIVE NoEmptyObjectBelow(_)
\* no object below value is empty
NoEmptyObjectBelow(value) ==
    value.t = "obj" =>
        \A k \in DOMAIN value.v :
            /\ value.v[k] # Obj(EmptyMap)
            /\ NoEmptyObjectBelow(value.v[k])

RECURSIVE NoDotInKeys(_)
NoDotInKeys(value) ==
    value.t = "obj" =>
        \A k \in DOMAIN value.v : ~HasDot(k) /\ NoDotInKeys(value.v[k])

RECURSIVE Stringified(_)
\* value with every leaf replaced by the string flatten makes of it
Stringified(value) ==
    IF value.t = "obj" THEN Obj([k \in DOMAIN value.v |-> Stringified(value.v[k])])
    ELSE Str(LeafText(value))

\* C11, as claimed: for every nested tree T without arrays,
\* unflatten(flatten(T)) is T: the same nesting of objects, the same keys at
\* every level, the same leaf values.
C11_RoundTripIsIdentity ==
    (flatten_pc = "saved" /\ json.t = "obj" /\ NoArrays(json)) =>
        save_result.ok /\ Obj(save_result.map) = json

\* the trees whose nesting and keys the round trip keeps: no empty object
\* below the root, no '.' in a key, no object under an empty key of the root
KeepsItsShape(value) ==
    /\ value.t = "obj"
    /\ NoArrays(value)
    /\ NoEmptyObjectBelow(value)
    /\ NoDotInKeys(value)
    /\ <<>> \in DOMAIN value.v => value.v[<<>>].t # "obj"

\* C11, amended: for such a tree T, unflatten(flatten(T)) has the nesting
\* and the keys of T, and for every leaf the string flatten makes of it (a
\* string verbatim, any other scalar as its canonical text).
C11_RoundTripStringifiesLeaves ==
    (flatten_pc = "saved" /\ KeepsItsShape(json)) =>
        save_result.ok /\ Obj(save_result.map) = Stringified(json)

C11_Witness ==
    /\ flatten_pc = "saved"
    /\ json = Obj([k \in {<<"a">>} |->
                  Obj([j \in {<<"a">>, <<"b">>} |->
                         IF j = <<"a">> THEN Str(<<"x">>) ELSE Num(1)])])
    /\ flattened = [k \in {<<"a", ".", "a">>, <<"a", ".", "b">>} |->
                      IF k = <<"a", ".", "a">> THEN <<"x">> ELSE <<"1">>]
    /\ save_result.ok
    /\ Obj(save_result.map) = Stringified(json)
    /\ Obj(save_result.map) # json

---------------------------------------------------------------------------
(* Properties of save_translation_file (SpecSave).                         *)

\* longer extends key by a '.' and more: key is a prefix of its path
IsDottedExtension(key, longer) ==
    /\ Len(longer) > Len(key)
    /\ SubSeq(longer, 1, Len(key) + 1) = key \o <<".">>

\* the mapping gives a value to a path and has a key that goes through it
HasStructureConflict(content) ==
    \E key, longer \in DOMAIN content : IsDottedExtension(key, longer)

RECURSIVE ValueAt(_, _)
\* the value found in tree by following parts, None when the path is not
\* there
ValueAt(tree, parts) ==
    IF parts = <<>> THEN tree
    ELSE ValueAt(Get(tree, Head(parts)), Tail(parts))

\* C12: unflatten fails, and writes no file, whenever the flat mapping has
\* both a key and a dotted extension of it; otherwise it succeeds, with
\* every intermediate object of every key's path built.
C12_ConflictAlwaysFails ==
    flatten_pc = "saved" =>
        IF HasStructureConflict(flattened)
        THEN ~save_result.ok /\ file = None
        ELSE /\ save_result.ok
             /\ \A key \in DOMAIN flattened :
                   ValueAt(Obj(save_result.map), split(key)) = Str(flattened[key])

---------------------------------------------------------------------------
(* Properties of push_translations (Spec).                                 *)

\* empty or made of whitespace only
BlankText(text) == \A i \in DOMAIN text : text[i] \in {" ", "\t"}

\* the content, after backfill, of the local translation of a language
LocalContentOf(lang) ==
    local_translations[CHOOSE i \in DOMAIN local_translations :
                          local_translations[i].language_code = lang].content

\* what the remote service holds for a language, as a flat mapping
RemoteContentOf(lang) ==
    IF remote_service[lang] = None THEN EmptyMap
    ELSE flatten_json(remote_service[lang])

\* C1: for a language that has a cached remote set, the delta push computes
\* is exactly the local entries whose key is absent from the remote content
\* or whose remote value is empty or whitespace-only; a key whose remote
\* value is populated is left out, equal to the local value or not.
C1_DeltaIsTheGaps ==
    (delta # NoDelta /\ delta.cached) =>
        LET local_content  == LocalContentOf(delta.language_code)
            cached_content == cached_translations[delta.language_code].content
        IN /\ DOMAIN delta.content \subseteq DOMAIN local_content
           /\ \A k \in DOMAIN local_content :
                 /\ k \in DOMAIN delta.content <=>
                       (k \notin DOMAIN cached_content \/ BlankText(cached_content[k]))
                 /\ k \in DOMAIN delta.content => delta.content[k] = local_content[k]

C1_Witness ==
    /\ delta.cached /\ delta.language_code = "zh-CN"
    /\ LocalContentOf("zh-CN") = [k \in PushKeys |-> <<"g">>]
    /\ cached_translations["zh-CN"].content =
          [k \in PushKeys |-> IF k = <<"a">> THEN <<"h">> ELSE <<" ">>]
    /\ delta.content = [k \in {<<"b">>} |-> <<"g">>]
    /\ uploads # <<>> /\ uploads[Len(uploads)].content = delta.content

\* C2: in every push run and for every language, no key whose value on the
\* remote service is non-empty is part of a submitted delta.
C2_NoPopulatedRemoteKeyPushed ==
    \A i \in DOMAIN uploads :
        LET remote_content == RemoteContentOf(uploads[i].language_code)
        IN uploads[i].ok =>
              \A k \in DOMAIN uploads[i].content :
                 k \in DOMAIN remote_content => BlankText(remote_content[k])

\* C3: when no cached remote set exists for a language, the delta submitted
\* for it is the language's whole local content, unchanged (so it is not
\* empty when the local content is not).
C3_FirstTimeUploadsWholeContent ==
    (delta # NoDelta /\ ~delta.cached) =>
        /\ uploads # <<>>
        /\ uploads[Len(uploads)].language_code = delta.language_code
        /\ uploads[Len(uploads)].content = LocalContentOf(delta.language_code)
        /\ LocalContentOf(delta.language_code) # EmptyMap =>
              uploads[Len(uploads)].content # EmptyMap

C3_Witness ==
    /\ delta # NoDelta /\ ~delta.cached /\ delta.language_code = "zh-CN"
    /\ "zh-CN" \notin DOMAIN cached_translations
    /\ local_files[2].content = [k \in {<<"a">>} |-> <<"g">>]
    /\ uploads[Len(uploads)].content =
          [k \in PushKeys |-> IF k = <<"a">> THEN <<"g">> ELSE <<"h">>]

\* the local files hold none of the base language
NoBaseFile == \A i \in DOMAIN local_files : local_files[i].language_code # base_language

\* C13: a push run without a local set of the base language fails with a
\* configuration error before any local file is written, any remote state
\* fetched or any delta submitted.
C13_NoBaseLanguageFailsFirst ==
    (NoBaseFile /\ pc # "start") =>
        /\ pc = "done" /\ result = "Err: base language not found"
        /\ saved = EmptyMap
        /\ cached_translations = EmptyMap
        /\ delta = NoDelta /\ uploads = <<>>

C13_Witness ==
    /\ pc = "done" /\ result = "Err: base language not found"
    /\ Len(local_files) = 1 /\ local_files[1].language_code = "zh-CN"
    /\ local_files[1].content # EmptyMap
    /\ remote_service["zh-CN"] # None

\* C14: after the backfill step and before any fetch or upload, every
\* non-base language's content has every key of the base language: a key it
\* lacked carries the base language's value, a key it had keeps its own
\* value, and the base language's content is unchanged.
C14_BackfillCompletesFromBase ==
    pc = "cache" =>
        /\ Len(local_translations) = Len(local_files)
        /\ \A i \in DOMAIN local_files :
              LET before == local_files[i]
                  after  == local_translations[i]
                  base_content ==
                      local_files[CHOOSE b \in DOMAIN local_files :
                          local_files[b].language_code = base_language].content
              IN /\ after.language_code = before.language_code
                 /\ IF before.language_code = base_language
                    THEN after.content = before.content
                    ELSE /\ DOMAIN after.content =
                               (DOMAIN before.content) \cup (DOMAIN base_content)
                         /\ \A k \in DOMAIN after.content :
                               after.content[k] =
                                  IF k \in DOMAIN before.content
                                  THEN before.content[k] ELSE base_content[k]

C14_Witness ==
    /\ pc = "cache"
    /\ \E i, j \in DOMAIN local_files :
          /\ local_files[i].language_code = "en-US"
          /\ local_files[i].content = [k \in PushKeys |-> <<"h">>]
          /\ local_files[j].language_code = "zh-CN"
          /\ local_files[j].content = [k \in {<<"a">>} |-> <<"g">>]
          /\ local_translations[j].content =
                [k \in PushKeys |-> IF k = <<"a">> THEN <<"g">> ELSE <<"h">>]
          /\ local_translations[i].content = local_files[i].content
    /\ "zh-CN" \in DOMAIN saved

\* C15: the upload operation is never invoked with an empty delta, in the
\* first-time-upload case as well as the cached case.
C15_NoEmptyDeltaSubmitted ==
    \A i \in DOMAIN uploads : uploads[i].content # EmptyMap

\* C16: every delta push submits for a language is a sub-mapping of that
\* language's local content after backfill: each key is a local key and
\* carries the local value.
C16_DeltaIsPartOfLocalContent ==
    \A i \in DOMAIN uploads :
        LET local_content == LocalContentOf(uploads[i].language_code)
        IN /\ DOMAIN uploads[i].content \subseteq DOMAIN local_content
           /\ \A k \in DOMAIN uploads[i].content :
                 uploads[i].content[k] = local_content[k]

C16_Witness ==
    /\ Len(uploads) = 2
    /\ uploads[1].language_code = "en-US"
    /\ uploads[1].content = [k \in {<<"a">>} |-> <<"h">>]
    /\ "en-US" \in DOMAIN cached_translations
    /\ cached_translations["en-US"].content =
          [k \in PushKeys |-> IF k = <<"a">> THEN <<>> ELSE <<"h">>]
    /\ uploads[2].language_code = "zh-CN"
    /\ "zh-CN" \in DOMAIN cached_translations
    /\ uploads[2].content = [k \in {<<"b">>} |-> <<"g">>]
    /\ <<"b">> \in DOMAIN cached_translations["zh-CN"].content
    /\ cached_translations["zh-CN"].content[<<"b">>] = <<" ">>

\* C17: a failure of one language's upload does not abort the run: the
\* languages after it are still processed.
C17_UploadFailureDoesNotAbort ==
    (pc = "done" /\ \E i \in DOMAIN uploads : ~uploads[i].ok) =>
        idx >= Len(local_translations)

---------------------------------------------------------------------------
(* Properties of download_translations and sync_translations (SpecSync).   *)

\* the languages the loop of the command has to go through
LoopLanguages ==
    IF command = "pull" THEN sync_files
    ELSE IF files_to_download = NoFileList THEN <<>> ELSE files_to_download

\* the command has ended after entering its loop
EndedAfterStart == sync_pc = "done" /\ sync_idx >= 1

\* every language of the loop was counted, as succeeded or as failed
EveryLanguageCounted == success_count + failed_count = Len(LoopLanguages)

\* C18: in download and pull, a network failure or a parse failure of one
\* language's remote blob marks only that language as failed: the run goes
\* on and the languages after it are still fetched and written.  (A run
\* ended by a failure to read or write a local file is C19's.)
C18_FetchFailureIsIsolated ==
    (EndedAfterStart /\ sync_result \notin {"Err: read failed", "Err: write failed"})
        => EveryLanguageCounted

\* C19: a failure to read or write one language's local file is not fatal:
\* the run goes on with the remaining languages and fails only when no
\* language succeeded.  (A run ended by a parse failure is C18's.)
C19_LocalFileFailureIsIsolated ==
    (EndedAfterStart /\ sync_result # "Err: parse failed") =>
        /\ EveryLanguageCounted
        /\ sync_result # "Ok" => success_count = 0

\* C20: a download or pull run in which every language fails ends with the
\* error that no language succeeded, and a run ends with that error only
\* when zero languages succeeded.
C20_NoProgressIsAnError ==
    (EndedAfterStart /\ EveryLanguageCounted /\ Len(LoopLanguages) > 0) =>
        (success_count = 0 <=> sync_result = "Err: no language synced")

\* the number of turns that met one of kinds
CountOf(log, kinds) == Cardinality({i \in DOMAIN log : log[i] \in kinds})

\* the turns after which the code adds one to failed_count
FailedKinds == {"download failed", "no language key", "not listed"}

\* the turns in which api::download_translation returned Ok
FetchedKinds == {"parse failed", "no language key", "read failed", "write failed", "ok"}

\* C21: a download or pull run over N languages in which some but not all
\* fetches fail completes with success, and at its end every language has
\* been counted exactly once, as succeeded or as failed, so that the two
\* counts sum to N.
C21_PartialFetchFailureStillTallies ==
    (sync_pc = "done"
        /\ CountOf(turns, {"download failed"}) > 0
        /\ CountOf(turns, FetchedKinds) > 0)
      => /\ sync_result = "Ok"
         /\ Len(turns) = Len(LoopLanguages)
         /\ success_count = CountOf(turns, {"ok"})
         /\ failed_count = CountOf(turns, FailedKinds)
         /\ success_count + failed_count = Len(LoopLanguages)

\* what merging gives for two objects of strings: the local entries, a
\* remote value in place of the local one when it is not blank, and the
\* remote-only entries that are not blank
ExpectedMerge(local_tree, remote_tree) ==
    LET populated == {k \in DOMAIN remote_tree.v : ~BlankText(remote_tree.v[k].v)}
    IN Obj([k \in (DOMAIN local_tree.v) \cup populated |->
              IF k \in populated THEN remote_tree.v[k] ELSE local_tree.v[k]])

C28_PullWritesOnlyLocalLanguages ==
    command = "pull" =>
        /\ DOMAIN local_dir = DOMAIN local_before
        /\ target_dir = EmptyMap
        /\ \A lang \in DOMAIN local_dir :
              (\A i \in DOMAIN turns : sync_files[i] = lang => turns[i] # "ok")
                 => local_dir[lang] = local_before[lang]
        /\ failed_count >= CountOf(turns, {"download failed", "not listed"})
        /\ \A i \in DOMAIN turns :
              turns[i] = "not listed" <=>
                 (\A j \in DOMAIN files_to_download :
                     files_to_download[j] # sync_files[i])

C28_Witness ==
    /\ command = "pull" /\ sync_pc = "done"
    /\ turns = <<"not listed", "download failed">>
    /\ sync_files = <<"en-US", "zh-CN">>
    /\ files_to_download = <<"ja-JP", "zh-CN">>
    /\ local_dir = local_before
    /\ "ja-JP" \notin DOMAIN local_dir
    /\ failed_count = 2 /\ success_count = 0

---------------------------------------------------------------------------
(* The commands together: a run is one of push, download and pull.         *)

CommandsInit == PushInit \/ SyncInit
CommandsNext == Next \/ SyncNext
SpecCommands == CommandsInit /\ [][CommandsNext]_vars

\* C25: the cache directory is cleared and recreated empty before any remote
\* content is fetched or cached, so that no file an earlier run left is in
\* it while the run fills or uses its cache; the target directory of
\* download is likewise emptied before any file is written to it.
C25_DirectoriesStartEmpty ==
    /\ (pc = "fetch" /\ idx = 1) => cache_dir = EmptyMap
    /\ pc = "fetch" =>
          \A l \in DOMAIN cache_dir : cache_dir[l] = remote_service[l]
    /\ cached_translations # EmptyMap =>
          \A l \in DOMAIN cache_dir : cache_dir[l] # StaleTree
    /\ (command = "download" /\ sync_pc = "loop" /\ sync_idx = 1) =>
          target_dir = EmptyMap
    /\ (command = "download" /\ (sync_pc = "loop" \/ turns # <<>>)) =>
          \A l \in DOMAIN target_dir : target_dir[l] = remote_blobs[l]

C25_Witness ==
    /\ pc = "fetch" /\ idx = 2
    /\ Manifest = <<"en-US", "zh-CN">>
    /\ DOMAIN cache_dir = {"en-US"}
    /\ cache_dir["en-US"] = remote_service["en-US"]
    /\ "en-US" \in DOMAIN cached_translations

\* the turns of the upload loop that have been taken
UploadTurnsTaken ==
    IF pc = "upload" THEN 1..(idx - 1)
    ELSE IF pc = "cleanup" \/ (pc = "done" /\ result = "Ok")
         THEN DOMAIN local_translations
    ELSE IF pc = "done" /\ result = "Err: upload" THEN 1..idx
    ELSE {}

\* C27: in push, when the fetch of the remote state fails as a whole, the
\* run does not stop: it goes on to the uploads with an empty cache, and
\* every local language it comes to is taken for a first-time upload and
\* submitted with its whole local content; likewise a language whose own
\* blob fetch failed is absent from the cache and is submitted in full.
C27_FailedFetchMeansFullUpload ==
    /\ cache_result = "Err" =>
          /\ cached_translations = EmptyMap
          /\ pc \in {"upload", "cleanup", "done"}
          /\ pc = "done" => (uploads # <<>> /\ result \in {"Ok", "Err: upload"})
    /\ \A l \in fetch_failed : l \notin DOMAIN cached_translations
    /\ \A i \in UploadTurnsTaken :
          LET lang == local_translations[i].language_code
          IN (cache_result = "Err" \/ lang \in fetch_failed) =>
                \E j \in DOMAIN uploads :
                   /\ uploads[j].language_code = lang
                   /\ uploads[j].content = local_translations[i].content

C27_Witness ==
    /\ cache_result = "Err" /\ pc = "done" /\ result = "Ok"
    /\ "en-US" \in DOMAIN cache_dir
    /\ Len(uploads) = 2
    /\ uploads[1].language_code = "en-US"
    /\ uploads[1].content = [k \in PushKeys |-> <<"h">>]
    /\ remote_service["en-US"] = Obj([k \in PushKeys |-> Str(<<"h">>)])
    /\ uploads[2].content = LocalContentOf("zh-CN")
    /\ fetch_failed = {}

\* the position of a language's file among the local translations
TurnOf(lang) ==
    CHOOSE i \in DOMAIN local_translations :
        local_translations[i].language_code = lang

\* C22: in every push run the upload step of the base language is over
\* before the delta of any other language is submitted, whatever the order
\* in which the local files were found.
C22_BaseLanguageUploadedFirst ==
    \A j \in DOMAIN uploads :
        uploads[j].language_code # base_language =>
            TurnOf(base_language) < TurnOf(uploads[j].language_code)

\* C23: upload_translation returns an error whenever the request cannot be
\* sent, the response body cannot be read or the status is not a success,
\* and Ok only on a success status; push returns that error to its caller
\* and does not report the language as pushed.
C23_UploadFailsLoudly ==
    /\ \A j \in DOMAIN uploads :
          LET response == uploads[j].response
          IN /\ uploads[j].ok <=>
                   (response.sent /\ response.body_read
                       /\ response.status \in 200..299)
             /\ ~uploads[j].ok =>
                   (pc = "done" /\ result = "Err: upload" /\ j = Len(uploads))
    /\ result = "Ok" => \A j \in DOMAIN uploads : uploads[j].ok

C23_Witness ==
    /\ pc = "done" /\ result = "Err: upload"
    /\ Len(uploads) = 2
    /\ uploads[1].ok /\ uploads[1].response.status = 200
    /\ ~uploads[2].ok
    /\ uploads[2].response = [sent |-> TRUE, body_read |-> TRUE, status |-> 400]

\* C26: the outcome of save_translation_file is a function of the flat
\* mapping alone: whatever the order in which the mapping's entries are
\* iterated, the result is the same error or the same tree.
C26_SaveIgnoresIterationOrder ==
    flatten_pc = "saved" =>
        \A order \in Perms(DOMAIN flattened) :
            save_translation_file(flattened, order) = save_result

---------------------------------------------------------------------------
(* main: the update gate, then the command's handler.                      *)

MAX_RETRIES == 3
\* the version of the running program, and the versions a release can have
CURRENT_VERSION == 2
Versions == {1, 2, 3}
Commands == {"init", "push", "download", "update", "pull"}
\* .i18n-app.json: absent, as Config::default() writes it, edited by the
\* user, or not a configuration
ConfigFiles == {"absent", "default", "user", "invalid"}

\* mutant: the check is made for the update command too
Gated_EveryCommand(cmd) == TRUE

\* !matches!(cli.command, Commands::Update)
Gated(cmd) == cmd # "update"

\* check_update_internal: an error, or the release when it is newer
check_update_internal(outcome, latest) ==
    IF outcome # "ok" THEN "Err"
    ELSE IF latest > CURRENT_VERSION THEN "Some"
    ELSE "None"

\* Config::init
init(cfg, written) ==
    IF cfg # "absent" THEN [result |-> "Err: exists", on_disk |-> cfg]
    ELSE IF written THEN [result |-> "Ok", on_disk |-> "default"]
    ELSE [result |-> "Err: write", on_disk |-> cfg]

\* mutant: the default configuration is written and then used
ensure_config_exists_Proceeds(cfg, written) ==
    IF cfg # "absent" THEN [result |-> "Ok", on_disk |-> cfg]
    ELSE IF written THEN [result |-> "Ok", on_disk |-> "default"]
    ELSE [result |-> "Err: write", on_disk |-> cfg]

\* Config::ensure_config_exists
ensure_config_exists(cfg, written) ==
    IF cfg # "absent" THEN [result |-> "Ok", on_disk |-> cfg]
    ELSE IF written THEN [result |-> "Err: please update", on_disk |-> "default"]
    ELSE [result |-> "Err: write", on_disk |-> cfg]

\* Config::load: ensure_config_exists()?, then from_file
load(cfg, written) ==
    LET ensured == ensure_config_exists(cfg, written)
    IN IF ensured.result # "Ok" THEN ensured
       ELSE IF ensured.on_disk = "invalid"
            THEN [result |-> "Err: parse", on_disk |-> ensured.on_disk]
       ELSE [result |-> "Ok", on_disk |-> ensured.on_disk]

MainInit ==
    /\ cli_command \in Commands
    /\ main_pc = "start" /\ retry = 0
    /\ latest_version \in Versions
    /\ gate = "pending" /\ handler = "none" /\ handler_result = "none"
    /\ exit_code = "none"
    /\ config_file \in ConfigFiles /\ config_before = config_file
    /\ service_ran = FALSE /\ installed = FALSE
    /\ MergeIdle /\ FlattenIdle /\ MissingIdle /\ PushIdle /\ SyncIdle

notMainVars == <<mergeVars, flattenVars, missingVars, pushVars, syncVars>>

\* main up to the check: the check is skipped for update; create_client
\* may fail, which check_update turns into Ok(None)
MainStart ==
    /\ main_pc = "start"
    /\ IF ~Gated(cli_command)
       THEN main_pc' = "run" /\ gate' = "skipped"
       ELSE \E client_ok \in BOOLEAN :
               IF client_ok THEN main_pc' = "check" /\ gate' = gate
               ELSE main_pc' = "run" /\ gate' = "None"
    /\ UNCHANGED <<cli_command, retry, latest_version, handler, handler_result,
                   exit_code, config_file, config_before, service_ran, installed,
                   notMainVars>>

\* one turn of the loop of check_update_with_retry, and what its caller
\* does when the loop ends: main exits with 1 on Some(release), update goes
\* on to install it
CheckAttempt ==
    /\ main_pc \in {"check", "update check"}
    /\ retry < MAX_RETRIES
    /\ \E outcome \in {"request failed", "bad status", "bad body", "bad tag", "ok"} :
          LET found == check_update_internal(outcome, latest_version)
              ended == found # "Err" \/ retry + 1 = MAX_RETRIES
              answer == IF found = "Err" THEN "None" ELSE found
          IN /\ retry' = retry + 1
             /\ IF ~ended
                THEN UNCHANGED <<main_pc, gate, exit_code, handler_result>>
                ELSE IF main_pc = "check"
                THEN /\ gate' = answer
                     /\ main_pc' = IF answer = "Some" THEN "exited" ELSE "run"
                     /\ exit_code' = IF answer = "Some" THEN "1" ELSE exit_code
                     /\ handler_result' = handler_result
                ELSE /\ gate' = gate
                     /\ main_pc' = IF answer = "Some" THEN "install" ELSE "exited"
                     /\ exit_code' = IF answer = "Some" THEN exit_code ELSE "0"
                     /\ handler_result' =
                           IF answer = "Some" THEN handler_result ELSE "Ok(false)"
    /\ UNCHANGED <<cli_command, latest_version, handler, config_file, config_before,
                   service_ran, installed, notMainVars>>

\* handle_init
RunInit ==
    /\ main_pc = "run" /\ cli_command = "init"
    /\ \E written \in BOOLEAN :
          LET r == init(config_file, written)
          IN /\ config_file' = r.on_disk
             /\ handler_result' = r.result
             /\ exit_code' = IF r.result = "Ok" THEN "0" ELSE "1"
    /\ handler' = "init" /\ main_pc' = "exited"
    /\ UNCHANGED <<cli_command, retry, latest_version, gate, config_before,
                   service_ran, installed, notMainVars>>

\* handle_push, handle_download and handle_pull: Config::load()?, then the
\* operation of TranslationService
RunService ==
    /\ main_pc = "run" /\ cli_command \in {"push", "download", "pull"}
    /\ \E written \in BOOLEAN, served \in {"Ok", "Err: service"} :
          LET r == load(config_file, written)
          IN /\ config_file' = r.on_disk
             /\ service_ran' = (r.result = "Ok")
             /\ handler_result' = IF r.result = "Ok" THEN served ELSE r.result
             /\ exit_code' = IF r.result = "Ok" /\ served = "Ok" THEN "0" ELSE "1"
    /\ handler' = cli_command /\ main_pc' = "exited"
    /\ UNCHANGED <<cli_command, retry, latest_version, gate, config_before,
                   installed, notMainVars>>

\* Commands::Update: update::update() makes its own check
RunUpdate ==
    /\ main_pc = "run" /\ cli_command = "update"
    /\ handler' = "update"
    /\ \E client_ok \in BOOLEAN :
          IF client_ok
          THEN /\ main_pc' = "update check" /\ retry' = 0
               /\ UNCHANGED <<handler_result, exit_code>>
          ELSE /\ main_pc' = "exited" /\ retry' = retry
               /\ handler_result' = "Ok(false)" /\ exit_code' = "0"
    /\ UNCHANGED <<cli_command, latest_version, gate, config_file, config_before,
                   service_ran, installed, notMainVars>>

\* update_internal with a release: the install script is fetched and run;
\* update() turns an error into Ok(false)
Install ==
    /\ main_pc = "install"
    /\ \E ok \in BOOLEAN :
          /\ installed' = ok
          /\ handler_result' = IF ok THEN "Ok(true)" ELSE "Ok(false)"
    /\ exit_code' = "0" /\ main_pc' = "exited"
    /\ UNCHANGED <<cli_command, retry, latest_version, gate, handler, config_file,
                   config_before, service_ran, notMainVars>>

MainNext == MainStart \/ CheckAttempt \/ RunInit \/ RunService \/ RunUpdate \/ Install
SpecMain == MainInit /\ [][MainNext]_vars

\* the process was ended by the check of main
GateExit == main_pc = "exited" /\ gate = "Some"

\* C29: for every command but update the update check runs before the
\* command: when it finds a newer release the process exits with a non-zero
\* status and the command has none of its effects; when it fails, after at
\* most 3 attempts, or finds no newer release, the command runs; the update
\* command is never gated by the check.
C29_UpdateCheckGatesCommands ==
    /\ retry <= 3
    /\ GateExit =>
          /\ cli_command # "update" /\ latest_version > CURRENT_VERSION
          /\ exit_code = "1"
          /\ handler = "none" /\ handler_result = "none"
          /\ config_file = config_before /\ ~service_ran /\ ~installed
    /\ (handler # "none" /\ cli_command # "update") => gate = "None"
    /\ (gate = "None" /\ latest_version > CURRENT_VERSION) => retry \in {0, 3}
    /\ (main_pc = "exited" /\ gate = "None") => handler = cli_command
    /\ cli_command = "update" =>
          /\ gate \in {"pending", "skipped"}
          /\ main_pc # "start" => gate = "skipped"
          /\ main_pc = "exited" => handler = "update"

C29_Witness ==
    /\ GateExit /\ cli_command = "push" /\ retry = 2
    /\ config_before = "absent" /\ config_file = "absent"
    /\ exit_code = "1" /\ handler = "none"

\* C30: Config::init never overwrites a configuration file: when one exists
\* it returns an error and the file is unchanged; Config::load on a missing
\* file writes the default configuration and returns an error, so that no
\* command runs against the configuration it has just generated.
C30_ConfigIsNeverOverwrittenNorDefaulted ==
    /\ (handler = "init" /\ config_before # "absent") =>
          /\ handler_result = "Err: exists" /\ exit_code = "1"
          /\ config_file = config_before
    /\ (handler \in {"push", "download", "pull"} /\ config_before = "absent") =>
          /\ handler_result \in {"Err: please update", "Err: write"}
          /\ handler_result = "Err: please update" => config_file = "default"
          /\ handler_result = "Err: write" => config_file = "absent"
          /\ ~service_ran /\ exit_code = "1"
    /\ service_ran =>
          /\ config_before \in {"default", "user"}
          /\ config_file = config_before
    /\ config_before # "absent" => config_file = config_before

C30_Witness ==
    /\ handler = "pull" /\ gate = "None"
    /\ config_before = "absent" /\ config_file = "default"
    /\ handler_result = "Err: please update"
    /\ ~service_ran /\ exit_code = "1"

=============================================================================
